---- MODULE Spec2Model ----
(***************************************************************************)
(* Model of the archiver-server content-addressable store                  *)
(* (src/archiver-server/src/storage.rs): store_content, retrieve_content,  *)
(* store_page_fetch, get_stats, run by concurrent request tasks over a     *)
(* shared bloom filter, metadata index (sled), hot cache (DashMap) and     *)
(* file system, and of the ingestion handler archive_entries               *)
(* (src/archiver-server/src/main.rs): grouping of a batch by session,      *)
(* redaction, the stores of the bodies and the session's active record.    *)
(*                                                                         *)
(* Strings are sequences of one-character strings; byte sequences are      *)
(* sequences of numbers 0..255.  Sizes are scaled down: the SHA-256 digest *)
(* is two bytes long, the bloom filter has BloomBits bits, the             *)
(* cache holds CACHE_SIZE entries and the cache ceiling is CacheCeiling    *)
(* bytes.                                                                  *)
(***************************************************************************)
EXTENDS Integers, Sequences, FiniteSets, TLC

\* -------------------------------------------------------------- bounds
NumTasks == 2      \* concurrent request-handling tasks
MaxCalls == 3      \* calls (store, retrieve, record_page_fetch) begun in a run
MaxClock == 1      \* the wall clock ticks at most this many times
RacePageCalls == 2 \* record_page_fetch calls begun in a run of the same-key workload
RaceCalls == 5     \* calls begun in a run of the same-key workload
FrameCalls == 3    \* store calls begun in a run of the one-payload workload
MaxBatches == 2    \* ingestion batches (archive_entries calls) begun in a run

\* --------------------------------------------------- program constants
CACHE_SIZE == 1    \* storage.rs:13 (1000), scaled
CacheCeiling == 3  \* storage.rs:157 and :189 (1_000_000 bytes), scaled
BloomBits == 4     \* bit-array size that storage.rs:11-12 ask for, scaled
BloomK == 2        \* number of probes that storage.rs:11-12 ask for, scaled
PageHashLen == 2   \* storage.rs:201 (&page_hash_only[..8]), scaled

Tasks == 1..NumTasks

\* ------------------------------------------------------------- strings
Sha256Tag == <<"s", "h", "a", "2", "5", "6", ":">>
SessionTag == <<"s", "e", "s", "s", "i", "o", "n", ":">>
ZstExt == <<".", "z", "s", "t">>
HexDigits == <<"0", "1", "2", "3", "4", "5", "6", "7", "8", "9", "a", "b", "c", "d", "e", "f">>

\* hex::encode: two lowercase digits per byte
RECURSIVE HexEncode(_)
HexEncode(bytes) ==
    IF bytes = <<>> THEN <<>>
    ELSE <<HexDigits[(Head(bytes) \div 16) + 1], HexDigits[(Head(bytes) % 16) + 1]>>
         \o HexEncode(Tail(bytes))

HexVal(c) == (CHOOSE i \in 1..16 : HexDigits[i] = c) - 1

\* Sha256 digest, modelled as a two-byte polynomial hash (djb2) that is
\* injective on the payloads and URLs of the model.
RECURSIVE Djb2(_, _)
Djb2(acc, bytes) ==
    IF bytes = <<>> THEN acc
    ELSE Djb2((acc * 33 + Head(bytes)) % (256 * 256), Tail(bytes))

Sha256(data) ==
    LET h == Djb2(5381, data) IN <<h \div 256, h % 256>>

\* Storage::compute_hash
compute_hash(data) == Sha256Tag \o HexEncode(Sha256(data))

\* str::strip_prefix: Some(rest) or None
HasPrefix(s, p) == Len(s) >= Len(p) /\ SubSeq(s, 1, Len(p)) = p
strip_prefix(s, p) == SubSeq(s, Len(p) + 1, Len(s))

\* str::as_bytes, for the characters of the model's inputs
Ascii ==
    ("\"" :> 34) @@ ("." :> 46) @@ ("/" :> 47) @@ ("1" :> 49) @@ ("2" :> 50)
    @@ (":" :> 58) @@ ("@" :> 64) @@ ("A" :> 65) @@ ("B" :> 66) @@ ("C" :> 67)
    @@ ("D" :> 68) @@ ("E" :> 69) @@ ("R" :> 82) @@ ("T" :> 84) @@ ("[" :> 91)
    @@ ("\\" :> 92) @@ ("]" :> 93) @@ ("a" :> 97) @@ ("c" :> 99) @@ ("h" :> 104)
    @@ ("k" :> 107) @@ ("o" :> 111) @@ ("p" :> 112) @@ ("x" :> 120)
as_bytes(text) == [i \in 1..Len(text) |-> Ascii[text[i]]]

\* ------------------------------------------------------------ zstd codec
\* encode_all / decode_all, modelled as a framed run-length code: a magic byte,
\* the decoded length, then (count, byte) pairs.
ZstdMagic == 253

RECURSIVE RunLength(_)
RunLength(bytes) ==
    IF bytes = <<>> THEN <<>>
    ELSE LET rest == RunLength(Tail(bytes)) IN
         IF rest # <<>> /\ rest[2] = Head(bytes)
         THEN <<rest[1] + 1, rest[2]>> \o SubSeq(rest, 3, Len(rest))
         ELSE <<1, Head(bytes)>> \o rest

RECURSIVE Repeat(_, _)
Repeat(n, b) == IF n = 0 THEN <<>> ELSE <<b>> \o Repeat(n - 1, b)

RECURSIVE Expand(_)
Expand(pairs) ==
    IF Len(pairs) < 2 THEN <<>>
    ELSE Repeat(pairs[1], pairs[2]) \o Expand(SubSeq(pairs, 3, Len(pairs)))

encode_all(data) == <<ZstdMagic, Len(data)>> \o RunLength(data)

DecodeOk(c) ==
    /\ Len(c) >= 2
    /\ c[1] = ZstdMagic
    /\ (Len(c) - 2) % 2 = 0
    /\ Len(Expand(SubSeq(c, 3, Len(c)))) = c[2]

decode_all(c) ==
    IF DecodeOk(c) THEN [ok |-> TRUE, val |-> Expand(SubSeq(c, 3, Len(c)))]
    ELSE [ok |-> FALSE, val |-> "DecodeError"]


\* --------------------------------------------------------- bloom filter
\* Bloom<String>: BloomK probes into BloomBits bits, by double hashing of the
\* digest characters.
RECURSIVE WeightedSum(_, _, _)
WeightedSum(s, i, w) ==
    IF i > Len(s) THEN 0
    ELSE (IF w THEN i ELSE 1) * HexVal(s[i]) + WeightedSum(s, i + 1, w)

BloomProbes(hash) ==
    LET d == strip_prefix(hash, Sha256Tag)
        h1 == WeightedSum(d, 1, FALSE)
        h2 == WeightedSum(d, 1, TRUE)
    IN {(h1 + i * h2) % BloomBits : i \in 0..(BloomK - 1)}

\* Bloom::check and Bloom::set
BloomCheck(bits, hash) == BloomProbes(hash) \subseteq bits
BloomSet(bits, hash) == bits \cup BloomProbes(hash)

\* ----------------------------------------------------------------- paths
ContentDir == <<"c", "o", "n", "t", "e", "n", "t">>
SessionsDir == <<"s", "e", "s", "s", "i", "o", "n", "s">>
JsonExt == <<".", "j", "s", "o", "n">>

\* &hash[..2] and &hash[2..4] panic on a string shorter than four bytes
CanSlice(hash) == Len(hash) >= 4

\* Storage::get_content_path
get_content_path(hash) ==
    <<ContentDir, SubSeq(hash, 1, 2), SubSeq(hash, 3, 4), hash \o ZstExt>>

\* chrono format("%Y-%m-%d") of the day number, and Display of an i64
DateStr(day) == <<"d", "a", "y", HexDigits[day + 1]>>
DecStr(n) == <<HexDigits[n + 1]>>

\* the snapshot path of store_page_fetch
PagePath(date, sid, pf) ==
    LET page_hash_only == strip_prefix(compute_hash(as_bytes(pf.page_url)), Sha256Tag) IN
    <<SessionsDir, DateStr(date), sid,
      DecStr(pf.timestamp) \o <<"_">> \o SubSeq(page_hash_only, 1, PageHashLen) \o JsonExt>>

SessionKey(sid) == SessionTag \o sid

\* ----------------------------------------------------------- the inputs
SmallA == <<7>>
SmallB == <<7, 7>>
Large == <<1, 2, 2>>
Payloads == {SmallA, SmallB, Large}

Unprefixed(b) == strip_prefix(compute_hash(b), Sha256Tag)
NeverStored ==
    {<<"a", "b", "c">>, Sha256Tag \o <<"a", "b">>,
     <<"0", "0", "0", "0">>, Sha256Tag \o <<"0", "0", "0", "0">>}
RetrieveArgs ==
    {compute_hash(b) : b \in Payloads} \cup {Unprefixed(SmallA)}
        \cup NeverStored

Sessions == {<<"a", ".", "c", "o">>}
PageUrl == <<"h", "/", "a">>
PageFetches == {[page_url |-> PageUrl, timestamp |-> 1, nreq |-> n] : n \in 1..2}
\* the same-key workload: one payload, one session, two records of the session
RacePayload == Large
RacePages == {[page_url |-> PageUrl, timestamp |-> ts, nreq |-> 1] : ts \in 1..2}
NoPf == [page_url |-> <<>>, timestamp |-> 0, nreq |-> 0]

\* ingestion batches (ArchiveRequest, main.rs:65-69); an entry is a Request or
\* a Response (lines 29-47), told apart by `type`
Secret1 == <<"p", "1">>
Secret2 == <<"p", "2">>
UrlPlain == <<"h", ":", "/", "/", "a", ".", "c", "o", "/", "x">>
UrlSecretPath == <<"h", ":", "/", "/", "a", ".", "c", "o", "/", "p", "1">>
UrlSecretHost == <<"h", ":", "/", "/", "p", "1", "@", "a", ".", "c", "o", "/", "x">>
ResponseSuffix == <<"_", "r", "e", "s", "p", "o", "n", "s", "e">>

Request(id, timestamp, url, headers, body) ==
    [type |-> "request", id |-> id, timestamp |-> timestamp, url |-> url,
     headers |-> headers, body |-> body]
Response(id, headers, body) ==
    [type |-> "response", id |-> id \o ResponseSuffix, timestamp |-> 0, url |-> <<>>,
     headers |-> headers, body |-> body]

\* two requests of one session whose bodies are two secrets
BatchLogin ==
    [password_hashes |-> {Secret1, Secret2},
     entries |-> <<Request(<<"1">>, 1, UrlSecretPath, <<<<<<"k">>, Secret1>>>>, <<Secret1>>),
                   Request(<<"2">>, 2, UrlPlain, <<>>, <<Secret2>>)>>]
\* two requests of one session with bodies A and B, and their responses
BatchAB ==
    [password_hashes |-> {},
     entries |-> <<Request(<<"3">>, 3, UrlPlain, <<>>, <<<<"A">>>>),
                   Response(<<"3">>, <<>>, <<<<"B">>>>),
                   Request(<<"4">>, 4, UrlPlain, <<>>, <<<<"B">>>>),
                   Response(<<"4">>, <<>>, <<<<"A">>>>)>>]
\* a request without a body, the secret in the user part of its URL
BatchUserinfo ==
    [password_hashes |-> {Secret1},
     entries |-> <<Request(<<"5">>, 5, UrlSecretHost, <<>>, <<>>)>>]
Batches == {BatchLogin, BatchAB, BatchUserinfo}

\* ------------------------------------------------- main.rs: pure helpers
Redacted == <<"[", "R", "E", "D", "A", "C", "T", "E", "D", "]">>

\* str::replace: every non-overlapping match of pat (not empty), left to right
RECURSIVE Replace(_, _, _)
Replace(text, pat, rep) ==
    IF Len(text) < Len(pat) THEN text
    ELSE IF SubSeq(text, 1, Len(pat)) = pat
    THEN rep \o Replace(SubSeq(text, Len(pat) + 1, Len(text)), pat, rep)
    ELSE <<Head(text)>> \o Replace(Tail(text), pat, rep)

\* strip_password_hashes, lines 116-122; `hashes` is the set in the order its
\* iterator yields it
RECURSIVE strip_password_hashes(_, _)
strip_password_hashes(text, hashes) ==
    IF hashes = <<>> THEN text
    ELSE strip_password_hashes(Replace(text, Head(hashes), Redacted), Tail(hashes))

\* the orders in which a HashSet with these elements can be iterated
RECURSIVE Orders(_)
Orders(S) ==
    IF S = {} THEN {<<>>}
    ELSE UNION {{<<x>> \o o : o \in Orders(S \ {x})} : x \in S}

\* str::split(sep), sep one character
RECURSIVE Split(_, _)
Split(text, sep) ==
    IF \A i \in 1..Len(text) : text[i] # sep THEN <<text>>
    ELSE LET i == CHOOSE j \in 1..Len(text) :
                      text[j] = sep /\ \A k \in 1..(j - 1) : text[k] # sep
         IN <<SubSeq(text, 1, i - 1)>> \o Split(SubSeq(text, i + 1, Len(text)), sep)

DefaultSession == <<"d", "e", "f", "a", "u", "l", "t">>

\* extract_session_id, lines 299-306
extract_session_id(url) ==
    LET parts == Split(url, "/") IN
    IF Len(parts) >= 3 THEN parts[3] ELSE DefaultSession

\* serde_json::to_string of a Value::String: quotes, with `"` and `\` escaped
RECURSIVE JsonEscape(_)
JsonEscape(text) ==
    IF text = <<>> THEN <<>>
    ELSE (IF Head(text) \in {"\"", "\\"} THEN <<"\\", Head(text)>> ELSE <<Head(text)>>)
         \o JsonEscape(Tail(text))
to_string(body) == <<"\"">> \o JsonEscape(body) \o <<"\"">>

\* convert_headers, lines 291-297; headers are <<name, value>> pairs, None is <<>>
convert_headers(headers, hashes) ==
    [i \in 1..Len(headers) |->
        <<headers[i][1], strip_password_hashes(headers[i][2], hashes)>>]

\* ------------------------------------------------------------ the state
VARIABLES
    fs,       \* path -> [data, synced]: the files that exist
    db,       \* key -> record: the sled metadata index (content_db)
    bloom,    \* the set bits of bloom_filter
    cache,    \* key -> bytes: content_cache
    clock,    \* the wall clock (chrono::Utc::now), in days
    task,     \* per request task: position, arguments, locals, result; and as
              \* history the steps the call has performed (steps) and whether a
              \* store of its identity had returned Ok when it began (prior)
    calls,    \* history: the number of calls begun
    okStores, \* history: payload -> number of store calls that returned Ok
    atBoot,   \* history: the content keys the index held at the last restart
    active_sessions, \* session id -> PageFetchIndex: AppState.active_sessions
    handler   \* per request task: the frame of archive_entries (main.rs)

vars == <<fs, db, bloom, cache, clock, task, calls, okStores, atBoot, active_sessions, handler>>

NoRes == [kind |-> "None", val |-> <<>>, err |-> ""]
Ok(v) == [kind |-> "Ok", val |-> v, err |-> ""]
Err(e) == [kind |-> "Err", val |-> <<>>, err |-> e]
Panicked == [kind |-> "Panic", val |-> <<>>, err |-> ""]

NoMeta ==
    [type |-> "none", size |-> 0, compressed_size |-> 0, first_seen |-> 0,
     reference_count |-> 0, paths |-> <<>>]
\* serde_json::to_vec(&ContentMetadata) and to_vec(&paths), by shape
MetaValue(size, csize, seen, rc) ==
    [type |-> "meta", size |-> size, compressed_size |-> csize, first_seen |-> seen,
     reference_count |-> rc, paths |-> <<>>]
PathsValue(paths) ==
    [type |-> "paths", size |-> 0, compressed_size |-> 0, first_seen |-> 0,
     reference_count |-> 0, paths |-> paths]

Idle ==
    [pc |-> "idle", op |-> "none", data |-> <<>>, hash |-> <<>>, sid |-> <<>>,
     pf |-> NoPf, date |-> 0, buf |-> <<>>, meta |-> NoMeta, res |-> NoRes,
     steps |-> <<>>, prior |-> FALSE]

\* Option values are sequences: <<>> is None, <<x>> is Some(x)
NoEntry ==
    [type |-> "none", id |-> <<>>, timestamp |-> 0, url |-> <<>>, headers |-> <<>>,
     body |-> <<>>]
\* ArchivedResponse and ArchivedRequest (storage.rs:35-54); the generated
\* request_id and the copied method, status_code and body_type take part in
\* no step
ArchivedResponse(headers) ==
    [headers |-> headers, body_hash |-> <<>>, body_size |-> <<>>]
ArchivedRequest(timestamp, url, headers) ==
    [timestamp |-> timestamp, url |-> url, request_headers |-> headers,
     request_body_hash |-> <<>>, request_body_size |-> <<>>, response |-> <<>>]
NoRequest == ArchivedRequest(0, <<>>, <<>>)
\* PageFetchIndex (storage.rs:25-33); the generated navigation_id takes part in
\* no step
PageFetchIndex(session_id, timestamp, password_hashes) ==
    [session_id |-> session_id, page_url |-> <<>>, timestamp |-> timestamp,
     requests |-> <<>>, password_hashes |-> password_hashes]
NoPageFetch == PageFetchIndex(<<>>, 0, <<>>)

\* map insert / remove on a function with a finite domain
Put(f, k, v) == [y \in DOMAIN f \cup {k} |-> IF y = k THEN v ELSE f[y]]
Remove(f, k) == [y \in DOMAIN f \ {k} |-> f[y]]
Empty == [y \in {} |-> 0]

\* the locals of archive_entries: the secrets in iteration order, the grouped
\* entries still to process, and the session being processed
NoHandler ==
    [pc |-> "idle", hashes |-> <<>>, page_requests |-> Empty, session_id |-> <<>>,
     page_fetch |-> NoPageFetch, requests |-> <<>>, archived_request |-> NoRequest,
     entries |-> <<>>]   \* history: the entries of the batch

RefCount(key) == IF key \in DOMAIN db THEN db[key].reference_count ELSE 0

\* the task moves to `pc`, having performed `step`
Goto(t, pc, step) ==
    [task EXCEPT ![t].pc = pc, ![t].steps = Append(@, step)]
\* the call returns `r`
Return(t, r, step) ==
    [task EXCEPT ![t].pc = "ret", ![t].res = r, ![t].steps = Append(@, step)]

\* Storage::new on an empty base directory
Init ==
    /\ fs = Empty
    /\ db = Empty
    /\ bloom = {}
    /\ cache = Empty
    /\ clock = 0
    /\ task = [t \in Tasks |-> Idle]
    /\ calls = 0
    /\ okStores = [b \in Payloads |-> 0]
    /\ atBoot = {}
    /\ active_sessions = Empty
    /\ handler = [t \in Tasks |-> NoHandler]

\* the tasks are interchangeable: a new call takes the first free one
FirstFree(t) == task[t].pc = "idle" /\ \A u \in Tasks : u < t => task[u].pc # "idle"

\* a task between acquiring bloom_filter.read() (line 114) and the end of the
\* block (line 123)
HoldsBloomRead(t) == task[t].pc \in {"s_contains", "s_inc_get", "s_inc_put"}

\* ------------------------------------------------- Storage::store_content
\* a caller invokes store_content(data); lines 109-110
StoreEntry(b) ==
    [Idle EXCEPT !.pc = "s_bloom", !.op = "store", !.data = b,
                 !.hash = compute_hash(b),
                 !.prior = b \in DOMAIN okStores /\ okStores[b] >= 1]

StoreCall(t, b) ==
    /\ FirstFree(t)
    /\ calls' = calls + 1
    /\ task' = [task EXCEPT ![t] = StoreEntry(b)]
    /\ UNCHANGED <<fs, db, bloom, cache, clock, okStores, atBoot, active_sessions, handler>>

StoreBegin(t) ==
    /\ calls < MaxCalls
    /\ \E b \in Payloads : StoreCall(t, b)

\* lines 114-115: take the read lock and check the filter
StoreBloomCheck(t) ==
    /\ task[t].pc = "s_bloom"
    /\ task' = IF BloomCheck(bloom, task[t].hash)
               THEN Goto(t, "s_contains", "bloom_hit")
               ELSE Goto(t, "s_mkdir", "bloom_miss")
    /\ UNCHANGED <<fs, db, bloom, cache, clock, calls, okStores, atBoot, active_sessions, handler>>

\* as StoreContains, with the filter's answer taken for the index's (line 117
\* left out)
StoreContainsTrusting(t) ==
    /\ task[t].pc = "s_contains"
    /\ task' = IF task[t].hash \in DOMAIN db
               THEN Goto(t, "s_inc_get", "contains_yes")
               ELSE Goto(t, "s_inc_get", "contains_no")
    /\ UNCHANGED <<fs, db, bloom, cache, clock, calls, okStores, atBoot, active_sessions, handler>>

\* line 117: content_db.contains_key, under the read lock
StoreContains(t) ==
    /\ task[t].pc = "s_contains"
    /\ task' = IF task[t].hash \in DOMAIN db
               THEN Goto(t, "s_inc_get", "contains_yes")
               ELSE Goto(t, "s_mkdir", "contains_no")
    /\ UNCHANGED <<fs, db, bloom, cache, clock, calls, okStores, atBoot, active_sessions, handler>>

\* increment_ref_count, lines 231-232: read and deserialize the record
IncrementGet(t) ==
    /\ task[t].pc = "s_inc_get"
    /\ task' = IF task[t].hash \notin DOMAIN db
               THEN Return(t, Ok(task[t].hash), "get_none")
               ELSE IF db[task[t].hash].type # "meta"
               THEN Return(t, Err("Serialization"), "get_bad")
               ELSE [Goto(t, "s_inc_put", "get") EXCEPT ![t].meta = db[task[t].hash]]
    /\ UNCHANGED <<fs, db, bloom, cache, clock, calls, okStores, atBoot, active_sessions, handler>>

\* as IncrementPut, with line 233 left out
IncrementPutNoInc(t) ==
    /\ task[t].pc = "s_inc_put"
    /\ db' = Put(db, task[t].hash, task[t].meta)
    /\ task' = Return(t, Ok(task[t].hash), "put")
    /\ UNCHANGED <<fs, bloom, cache, clock, calls, okStores, atBoot, active_sessions, handler>>

\* as IncrementPut, with the record read again at the write (lines 231-237 as one
\* step)
IncrementPutAtomic(t) ==
    /\ task[t].pc = "s_inc_put"
    /\ db' = Put(db, task[t].hash,
                 [db[task[t].hash] EXCEPT !.reference_count = @ + 1])
    /\ task' = Return(t, Ok(task[t].hash), "put")
    /\ UNCHANGED <<fs, bloom, cache, clock, calls, okStores, atBoot, active_sessions, handler>>

\* increment_ref_count, lines 233-239, then line 120
IncrementPut(t) ==
    /\ task[t].pc = "s_inc_put"
    /\ db' = Put(db, task[t].hash,
                 [task[t].meta EXCEPT !.reference_count = @ + 1])
    /\ task' = Return(t, Ok(task[t].hash), "put")
    /\ UNCHANGED <<fs, bloom, cache, clock, calls, okStores, atBoot, active_sessions, handler>>

\* lines 126-130: compress, derive the path, create the parent directories
StoreMkdir(t) ==
    /\ task[t].pc = "s_mkdir"
    /\ task' = Goto(t, "s_create", "mkdir")
    /\ UNCHANGED <<fs, db, bloom, cache, clock, calls, okStores, atBoot, active_sessions, handler>>

StorePath(t) == get_content_path(strip_prefix(task[t].hash, Sha256Tag))

\* line 132: File::create creates the file or truncates the one that exists
StoreCreate(t) ==
    /\ task[t].pc = "s_create"
    /\ fs' = Put(fs, StorePath(t), [data |-> <<>>, synced |-> FALSE])
    /\ task' = Goto(t, "s_write", "create")
    /\ UNCHANGED <<db, bloom, cache, clock, calls, okStores, atBoot, active_sessions, handler>>

\* line 133: write_all from offset 0 of the open file
StoreWrite(t) ==
    /\ task[t].pc = "s_write"
    /\ fs' = Put(fs, StorePath(t), [data |-> encode_all(task[t].data), synced |-> FALSE])
    /\ task' = Goto(t, "s_sync", "write")
    /\ UNCHANGED <<db, bloom, cache, clock, calls, okStores, atBoot, active_sessions, handler>>

\* line 134: sync_all
StoreSync(t) ==
    /\ task[t].pc = "s_sync"
    /\ fs' = [fs EXCEPT ![StorePath(t)].synced = TRUE]
    /\ task' = Goto(t, "s_meta", "sync")
    /\ UNCHANGED <<db, bloom, cache, clock, calls, okStores, atBoot, active_sessions, handler>>

\* lines 137-148: insert a fresh record with reference_count 1
StoreMeta(t) ==
    /\ task[t].pc = "s_meta"
    /\ db' = Put(db, task[t].hash,
                 MetaValue(Len(task[t].data), Len(encode_all(task[t].data)), clock, 1))
    /\ task' = Goto(t, "s_bloom_set", "meta")
    /\ UNCHANGED <<fs, bloom, cache, clock, calls, okStores, atBoot, active_sessions, handler>>

\* lines 151-154 and 157: take the write lock (no reader holds the filter), set
StoreBloomSet(t) ==
    /\ task[t].pc = "s_bloom_set"
    /\ \A u \in Tasks : ~HoldsBloomRead(u)
    /\ bloom' = BloomSet(bloom, task[t].hash)
    /\ task' = IF Len(task[t].data) < CacheCeiling
               THEN Goto(t, "s_cache", "bloom_set")
               ELSE Return(t, Ok(task[t].hash), "bloom_set")
    /\ UNCHANGED <<fs, db, cache, clock, calls, okStores, atBoot, active_sessions, handler>>

\* line 158: content_cache.insert
StoreCacheInsert(t) ==
    /\ task[t].pc = "s_cache"
    /\ cache' = Put(cache, task[t].hash, task[t].data)
    /\ task' = Goto(t, "s_cache_len", "cache_insert")
    /\ UNCHANGED <<fs, db, bloom, clock, calls, okStores, atBoot, active_sessions, handler>>

\* line 161: content_cache.len() > CACHE_SIZE
StoreCacheLen(t) ==
    /\ task[t].pc = "s_cache_len"
    /\ task' = IF Cardinality(DOMAIN cache) > CACHE_SIZE
               THEN Goto(t, "s_evict", "over")
               ELSE Return(t, Ok(task[t].hash), "within")
    /\ UNCHANGED <<fs, db, bloom, cache, clock, calls, okStores, atBoot, active_sessions, handler>>

\* lines 163-165: iter().next() yields some entry, in the map's own order, and
\* holds a read guard on its shard while remove() asks for the write lock of the
\* same shard.  DashMap documents remove() as liable to deadlock in that case:
\* the entry is removed, or the task blocks for good.
StoreEvict(t) ==
    /\ task[t].pc = "s_evict"
    /\ \/ /\ cache = Empty
          /\ cache' = cache
          /\ task' = Return(t, Ok(task[t].hash), "evict_none")
       \/ \E k \in DOMAIN cache :
              /\ cache' = Remove(cache, k)
              /\ task' = Return(t, Ok(task[t].hash), "evict")
       \/ /\ cache # Empty
          /\ cache' = cache
          /\ task' = Goto(t, "blocked", "evict_deadlock")
    /\ UNCHANGED <<fs, db, bloom, clock, calls, okStores, atBoot, active_sessions, handler>>

\* ---------------------------------------------- Storage::retrieve_content
\* a caller invokes retrieve_content(hash) with any string
RetrieveBegin(t) ==
    /\ FirstFree(t)
    /\ calls < MaxCalls
    /\ calls' = calls + 1
    /\ \E s \in RetrieveArgs :
        task' = [task EXCEPT ![t] =
                    [Idle EXCEPT !.pc = "r_cache", !.op = "retrieve", !.hash = s,
                                 !.prior = \E b \in Payloads :
                                     okStores[b] >= 1 /\ compute_hash(b) = s]]
    /\ UNCHANGED <<fs, db, bloom, cache, clock, okStores, atBoot, active_sessions, handler>>

\* lines 174-176: content_cache.get(hash)
RetrieveCache(t) ==
    /\ task[t].pc = "r_cache"
    /\ task' = IF task[t].hash \in DOMAIN cache
               THEN Return(t, Ok(cache[task[t].hash]), "cache_hit")
               ELSE Goto(t, "r_path", "cache_miss")
    /\ UNCHANGED <<fs, db, bloom, cache, clock, calls, okStores, atBoot, active_sessions, handler>>

\* line 178: strip_prefix("sha256:").unwrap_or(hash)
HashOnly(hash) == IF HasPrefix(hash, Sha256Tag) THEN strip_prefix(hash, Sha256Tag) ELSE hash

\* lines 178-183: derive the path (the slices of get_content_path panic on a
\* short string), then content_path.exists()
RetrievePath(t) ==
    /\ task[t].pc = "r_path"
    /\ task' = IF ~CanSlice(HashOnly(task[t].hash))
               THEN Return(t, Panicked, "slice_panic")
               ELSE IF get_content_path(HashOnly(task[t].hash)) \notin DOMAIN fs
               THEN Return(t, Err("NotFound"), "not_found")
               ELSE Goto(t, "r_read", "exists")
    /\ UNCHANGED <<fs, db, bloom, cache, clock, calls, okStores, atBoot, active_sessions, handler>>

\* line 185: fs::read
RetrieveRead(t) ==
    /\ task[t].pc = "r_read"
    /\ task' = [Goto(t, "r_decode", "read") EXCEPT
                   ![t].buf = fs[get_content_path(HashOnly(task[t].hash))].data]
    /\ UNCHANGED <<fs, db, bloom, cache, clock, calls, okStores, atBoot, active_sessions, handler>>

\* lines 186-193: decode_all, then insert into the cache when under the ceiling
RetrieveDecode(t) ==
    /\ task[t].pc = "r_decode"
    /\ LET d == decode_all(task[t].buf) IN
        IF ~d.ok
        THEN /\ task' = Return(t, Err("Decode"), "decode_error")
             /\ cache' = cache
        ELSE /\ task' = Return(t, Ok(d.val), "decoded")
             /\ cache' = IF Len(d.val) < CacheCeiling
                         THEN Put(cache, task[t].hash, d.val)
                         ELSE cache
    /\ UNCHANGED <<fs, db, bloom, clock, calls, okStores, atBoot, active_sessions, handler>>

\* ---------------------------------------------- Storage::store_page_fetch
\* a caller invokes store_page_fetch(session_id, page_fetch); lines 197-206
PageEntry(sid, pf) ==
    [Idle EXCEPT !.pc = "p_mkdir", !.op = "page", !.sid = sid, !.pf = pf,
                 !.date = clock]

PageCall(t, sid, pf) ==
    /\ FirstFree(t)
    /\ calls' = calls + 1
    /\ task' = [task EXCEPT ![t] = PageEntry(sid, pf)]
    /\ UNCHANGED <<fs, db, bloom, cache, clock, okStores, atBoot, active_sessions, handler>>

PageBegin(t) ==
    /\ calls < MaxCalls
    /\ \E sid \in Sessions, pf \in PageFetches : PageCall(t, sid, pf)

TaskPagePath(t) == PagePath(task[t].date, task[t].sid, task[t].pf)

\* line 208: create_dir_all
PageMkdir(t) ==
    /\ task[t].pc = "p_mkdir"
    /\ task' = Goto(t, "p_write", "mkdir")
    /\ UNCHANGED <<fs, db, bloom, cache, clock, calls, okStores, atBoot, active_sessions, handler>>

\* lines 210-211: fs::write creates or replaces the file at the path
PageWrite(t) ==
    /\ task[t].pc = "p_write"
    /\ fs' = Put(fs, TaskPagePath(t), [data |-> <<task[t].pf>>, synced |-> FALSE])
    /\ task' = Goto(t, "p_get", "write")
    /\ UNCHANGED <<db, bloom, cache, clock, calls, okStores, atBoot, active_sessions, handler>>

\* lines 214-219: read the session's path list
PageGet(t) ==
    /\ task[t].pc = "p_get"
    /\ LET key == SessionKey(task[t].sid) IN
       task' = IF key \notin DOMAIN db
               THEN [Goto(t, "p_put", "get_none") EXCEPT ![t].buf = <<>>]
               ELSE IF db[key].type # "paths"
               THEN Return(t, Err("Serialization"), "get_bad")
               ELSE [Goto(t, "p_put", "get") EXCEPT ![t].buf = db[key].paths]
    /\ UNCHANGED <<fs, db, bloom, cache, clock, calls, okStores, atBoot, active_sessions, handler>>

\* lines 221-227: push the path and write the list back
PagePut(t) ==
    /\ task[t].pc = "p_put"
    /\ db' = Put(db, SessionKey(task[t].sid),
                 PathsValue(Append(task[t].buf, TaskPagePath(t))))
    /\ task' = Return(t, Ok(TaskPagePath(t)), "put")
    /\ UNCHANGED <<fs, bloom, cache, clock, calls, okStores, atBoot, active_sessions, handler>>

\* ------------------------------------------------- main.rs: archive_entries
\* str::trim_end_matches
RECURSIVE trim_end_matches(_, _)
trim_end_matches(text, suffix) ==
    IF Len(text) >= Len(suffix)
       /\ SubSeq(text, Len(text) - Len(suffix) + 1, Len(text)) = suffix
    THEN trim_end_matches(SubSeq(text, 1, Len(text) - Len(suffix)), suffix)
    ELSE text

\* lines 158-165: the first pair of the session whose request has the id gets
\* the response
AttachResponse(pairs, request_id, entry) ==
    IF \A i \in 1..Len(pairs) : pairs[i][1].id # request_id THEN pairs
    ELSE LET i == CHOOSE j \in 1..Len(pairs) :
                      /\ pairs[j][1].id = request_id
                      /\ \A k \in 1..(j - 1) : pairs[k][1].id # request_id
         IN [pairs EXCEPT ![i] = <<pairs[i][1], entry>>]

\* lines 132-170: group the entries by session, pair responses with requests
RECURSIVE GroupEntries(_, _, _)
GroupEntries(entries, page_requests, pending_requests) ==
    IF entries = <<>> THEN page_requests
    ELSE LET entry == Head(entries) IN
         IF entry.type = "request"
         THEN LET session_id == extract_session_id(entry.url)
                  sofar == IF session_id \in DOMAIN page_requests
                           THEN page_requests[session_id] ELSE <<>>
              IN GroupEntries(Tail(entries),
                              Put(page_requests, session_id, Append(sofar, <<entry, NoEntry>>)),
                              Put(pending_requests, entry.id, entry))
         ELSE LET request_id == trim_end_matches(entry.id, ResponseSuffix) IN
              IF request_id \notin DOMAIN pending_requests
              THEN GroupEntries(Tail(entries), page_requests, pending_requests)
              ELSE LET session_id == extract_session_id(pending_requests[request_id].url) IN
                   GroupEntries(Tail(entries),
                                IF session_id \in DOMAIN page_requests
                                THEN Put(page_requests, session_id,
                                         AttachResponse(page_requests[session_id],
                                                        request_id, entry))
                                ELSE page_requests,
                                pending_requests)

\* the handlers are interchangeable: a new request takes the first free one
HandlerFree(t) ==
    /\ handler[t].pc = "idle" /\ task[t].pc = "idle"
    /\ \A u \in Tasks : u < t => handler[u].pc # "idle"

\* POST /archive arrives; lines 128-170
ArchiveBegin(t) ==
    /\ HandlerFree(t)
    /\ calls < MaxBatches
    /\ calls' = calls + 1
    /\ \E batch \in Batches : \E hashes \in Orders(batch.password_hashes) :
        handler' = [handler EXCEPT ![t] =
            [NoHandler EXCEPT !.pc = "a_next", !.hashes = hashes,
                              !.page_requests = GroupEntries(batch.entries, Empty, Empty),
                              !.entries = batch.entries]]
    /\ UNCHANGED <<fs, db, bloom, cache, clock, task, okStores, atBoot, active_sessions>>

\* lines 173-186: the next session of the map, in the map's own order; under
\* the lock, the session's record is created if absent, and cloned
ArchiveSession(t) ==
    /\ handler[t].pc = "a_next"
    /\ \E session_id \in DOMAIN handler[t].page_requests :
        LET page_fetch == IF session_id \in DOMAIN active_sessions
                          THEN active_sessions[session_id]
                          ELSE PageFetchIndex(session_id, clock, handler[t].hashes)
        IN /\ active_sessions' = Put(active_sessions, session_id, page_fetch)
           /\ handler' = [handler EXCEPT
                  ![t].pc = "a_req", ![t].session_id = session_id,
                  ![t].page_fetch = page_fetch,
                  ![t].requests = handler[t].page_requests[session_id],
                  ![t].page_requests = Remove(@, session_id)]
    /\ UNCHANGED <<fs, db, bloom, cache, clock, task, calls, okStores, atBoot>>

\* lines 189-224: the next request of the session; its body, made a string and
\* redacted, goes to store_content unless empty
ArchiveRequestEntry(t) ==
    /\ handler[t].pc = "a_req"
    /\ handler[t].requests # <<>>
    /\ LET request == Head(handler[t].requests)[1]
           hashes == handler[t].hashes
           url == strip_password_hashes(request.url, hashes)
           page_fetch == IF handler[t].page_fetch.page_url = <<>>
                         THEN [handler[t].page_fetch EXCEPT !.page_url = url]
                         ELSE handler[t].page_fetch
           archived_request ==
               ArchivedRequest(request.timestamp, url,
                               convert_headers(request.headers, hashes))
           body_bytes == IF request.body = <<>> THEN <<>>
                         ELSE as_bytes(strip_password_hashes(to_string(request.body[1]),
                                                             hashes))
       IN /\ handler' = [handler EXCEPT
                 ![t].page_fetch = page_fetch,
                 ![t].archived_request = archived_request,
                 ![t].pc = IF body_bytes # <<>> THEN "a_req_stored" ELSE "a_resp"]
          /\ task' = IF body_bytes # <<>>
                     THEN [task EXCEPT ![t] = StoreEntry(body_bytes)]
                     ELSE task
    /\ UNCHANGED <<fs, db, bloom, cache, clock, calls, okStores, atBoot, active_sessions>>

\* lines 214-222: store_content returned
ArchiveRequestStored(t) ==
    /\ handler[t].pc = "a_req_stored"
    /\ task[t].pc = "ret"
    /\ handler' = [handler EXCEPT
           ![t].pc = "a_resp",
           ![t].archived_request =
               IF task[t].res.kind = "Ok"
               THEN [@ EXCEPT !.request_body_hash = <<task[t].res.val>>,
                              !.request_body_size = <<Len(task[t].data)>>]
               ELSE @]
    /\ task' = [task EXCEPT ![t] = Idle]
    /\ UNCHANGED <<fs, db, bloom, cache, clock, calls, okStores, atBoot, active_sessions>>

\* line 265: page_fetch.requests.push(archived_request)
Pushed(h, archived_request) ==
    [h EXCEPT !.pc = "a_req",
              !.page_fetch.requests = Append(@, archived_request),
              !.requests = Tail(@)]

\* lines 226-265: the response paired with the request, if any; its body,
\* redacted, goes to store_content unless empty
ArchiveResponseEntry(t) ==
    /\ handler[t].pc = "a_resp"
    /\ LET response == Head(handler[t].requests)[2]
           hashes == handler[t].hashes
           archived_response ==
               ArchivedResponse(convert_headers(response.headers, hashes))
           body_bytes == IF response.body = <<>> THEN <<>>
                         ELSE as_bytes(strip_password_hashes(response.body[1], hashes))
       IN IF response.type = "none"
          THEN /\ handler' = [handler EXCEPT
                      ![t] = Pushed(@, handler[t].archived_request)]
               /\ task' = task
          ELSE IF body_bytes = <<>>
          THEN /\ handler' = [handler EXCEPT
                      ![t] = Pushed(@, [handler[t].archived_request EXCEPT
                                           !.response = <<archived_response>>])]
               /\ task' = task
          ELSE /\ handler' = [handler EXCEPT
                      ![t].pc = "a_resp_stored",
                      ![t].archived_request.response = <<archived_response>>]
               /\ task' = [task EXCEPT ![t] = StoreEntry(body_bytes)]
    /\ UNCHANGED <<fs, db, bloom, cache, clock, calls, okStores, atBoot, active_sessions>>

\* lines 250-265: store_content returned
ArchiveResponseStored(t) ==
    /\ handler[t].pc = "a_resp_stored"
    /\ task[t].pc = "ret"
    /\ LET archived_request ==
               IF task[t].res.kind = "Ok"
               THEN [handler[t].archived_request EXCEPT
                        !.response = <<[@[1] EXCEPT !.body_hash = <<task[t].res.val>>,
                                                    !.body_size = <<Len(task[t].data)>>]>>]
               ELSE handler[t].archived_request
       IN handler' = [handler EXCEPT ![t] = Pushed(@, archived_request)]
    /\ task' = [task EXCEPT ![t] = Idle]
    /\ UNCHANGED <<fs, db, bloom, cache, clock, calls, okStores, atBoot, active_sessions>>

\* lines 269-270: the session's requests are done, store_page_fetch is called
ArchivePersist(t) ==
    /\ handler[t].pc = "a_req"
    /\ handler[t].requests = <<>>
    /\ handler' = [handler EXCEPT ![t].pc = "a_persisted"]
    /\ task' = [task EXCEPT ![t] = PageEntry(handler[t].session_id, handler[t].page_fetch)]
    /\ UNCHANGED <<fs, db, bloom, cache, clock, calls, okStores, atBoot, active_sessions>>

\* lines 270-281: store_page_fetch returned; on Ok the record replaces the
\* session's entry, under the lock
ArchivePersisted(t) ==
    /\ handler[t].pc = "a_persisted"
    /\ task[t].pc = "ret"
    /\ active_sessions' =
           IF task[t].res.kind = "Ok"
           THEN Put(active_sessions, handler[t].session_id, handler[t].page_fetch)
           ELSE active_sessions
    /\ handler' = [handler EXCEPT ![t].pc = "a_next"]
    /\ task' = [task EXCEPT ![t] = Idle]
    /\ UNCHANGED <<fs, db, bloom, cache, clock, calls, okStores, atBoot>>

\* lines 284-288: every session is done, the response is returned
ArchiveReturn(t) ==
    /\ handler[t].pc = "a_next"
    /\ DOMAIN handler[t].page_requests = {}
    /\ handler' = [handler EXCEPT ![t] = NoHandler]
    /\ UNCHANGED <<fs, db, bloom, cache, clock, task, calls, okStores, atBoot, active_sessions>>

\* ------------------------------------------------------- Storage::get_stats
RECURSIVE SumOver(_, _)
SumOver(keys, field) ==
    IF keys = {} THEN 0
    ELSE LET k == CHOOSE y \in keys : TRUE IN
         (IF db[k].type = "meta" THEN db[k][field] ELSE 0) + SumOver(keys \ {k}, field)

\* lines 254-282; compression_ratio is kept as the pair it divides
get_stats ==
    LET total == SumOver(DOMAIN db, "size")
        compressed == SumOver(DOMAIN db, "compressed_size")
    IN [content_count |-> Cardinality(DOMAIN db),
        cache_size |-> Cardinality(DOMAIN cache),
        total_size |-> total,
        compressed_size |-> compressed,
        compression_ratio |-> IF total > 0 THEN <<compressed, total>> ELSE <<1, 1>>]

\* ------------------------------------------------------------- failures
\* an operation of the metadata index or the file system returns Err, and `?`
\* returns it to the caller
Fails(t, pc, e) ==
    /\ task[t].pc = pc
    /\ task' = Return(t, Err(e), "failed")
    /\ UNCHANGED <<fs, db, bloom, cache, clock, calls, okStores, atBoot, active_sessions, handler>>

\* line 117
StoreContainsFail(t) == Fails(t, "s_contains", "Index")
\* line 231: `if let Ok(Some(data))` does not match an Err, and line 239 returns Ok
IncrementGetFail(t) ==
    /\ task[t].pc = "s_inc_get"
    /\ task' = Return(t, Ok(task[t].hash), "get_failed")
    /\ UNCHANGED <<fs, db, bloom, cache, clock, calls, okStores, atBoot, active_sessions, handler>>
\* line 237
IncrementPutFail(t) == Fails(t, "s_inc_put", "Index")
\* line 130
StoreMkdirFail(t) == Fails(t, "s_mkdir", "Io")
\* line 132
StoreCreateFail(t) == Fails(t, "s_create", "Io")
\* line 133: some of the bytes may have reached the file
StoreWriteFail(t) ==
    /\ task[t].pc = "s_write"
    /\ \E n \in 0..(Len(encode_all(task[t].data)) - 1) :
        LET old == fs[StorePath(t)].data IN
        fs' = Put(fs, StorePath(t),
                  [data |-> IF Len(old) >= n THEN old
                            ELSE SubSeq(encode_all(task[t].data), 1, n),
                   synced |-> FALSE])
    /\ task' = Return(t, Err("Io"), "failed")
    /\ UNCHANGED <<db, bloom, cache, clock, calls, okStores, atBoot, active_sessions, handler>>
\* as StoreSyncFail, with the `?` of line 134 left out
StoreSyncFailIgnored(t) ==
    /\ task[t].pc = "s_sync"
    /\ task' = Goto(t, "s_meta", "failed")
    /\ UNCHANGED <<fs, db, bloom, cache, clock, calls, okStores, atBoot, active_sessions, handler>>

\* line 134
StoreSyncFail(t) == Fails(t, "s_sync", "Io")
\* as StoreMetaFail, with the `?` of line 148 left out
StoreMetaFailIgnored(t) ==
    /\ task[t].pc = "s_meta"
    /\ task' = Goto(t, "s_bloom_set", "failed")
    /\ UNCHANGED <<fs, db, bloom, cache, clock, calls, okStores, atBoot, active_sessions, handler>>

\* line 148
StoreMetaFail(t) == Fails(t, "s_meta", "Index")
\* line 185
RetrieveReadFail(t) == Fails(t, "r_read", "Io")
\* line 208
PageMkdirFail(t) == Fails(t, "p_mkdir", "Io")
\* line 211
PageWriteFail(t) == Fails(t, "p_write", "Io")
\* line 217: `if let Ok(Some(existing))` does not match an Err: paths stays empty
PageGetFail(t) ==
    /\ task[t].pc = "p_get"
    /\ task' = [Goto(t, "p_put", "get_failed") EXCEPT ![t].buf = <<>>]
    /\ UNCHANGED <<fs, db, bloom, cache, clock, calls, okStores, atBoot, active_sessions, handler>>
\* line 225
PagePutFail(t) == Fails(t, "p_put", "Index")

\* ----------------------------------------------------------- environment
\* the call's result reaches the caller
Finish(t) ==
    /\ task[t].pc = "ret"
    /\ okStores' = IF task[t].op = "store" /\ task[t].res.kind = "Ok"
                   THEN [okStores EXCEPT ![task[t].data] = @ + 1]
                   ELSE okStores
    /\ task' = [task EXCEPT ![t] = Idle]
    /\ UNCHANGED <<fs, db, bloom, cache, clock, calls, atBoot, active_sessions, handler>>

\* the process stops and Storage::new runs again (lines 66-100): the tasks are
\* gone, the bloom filter and the cache are new, the index and the files stay
Restart ==
    /\ task' = [t \in Tasks |-> Idle]
    /\ bloom' = {}
    /\ cache' = Empty
    /\ atBoot' = {k \in DOMAIN db : db[k].type = "meta"}
    /\ active_sessions' = Empty
    /\ handler' = [t \in Tasks |-> NoHandler]
    /\ UNCHANGED <<fs, db, clock, calls, okStores>>

\* time passes
Tick ==
    /\ clock < MaxClock
    /\ clock' = clock + 1
    /\ UNCHANGED <<fs, db, bloom, cache, task, calls, okStores, atBoot, active_sessions, handler>>

\* ------------------------------------------------------- specifications
Begin(t) == StoreBegin(t) \/ RetrieveBegin(t) \/ PageBegin(t)

\* one call at a time: a call begins when no other call is in progress
Sequential(t) == \A u \in Tasks \ {t} : task[u].pc = "idle"
StoreBeginSeq(t) == Sequential(t) /\ StoreBegin(t)
RetrieveBeginSeq(t) == Sequential(t) /\ RetrieveBegin(t)
PageBeginSeq(t) == Sequential(t) /\ PageBegin(t)
BeginSeq(t) == StoreBeginSeq(t) \/ RetrieveBeginSeq(t) \/ PageBeginSeq(t)

Body(t) ==
    \/ StoreBloomCheck(t) \/ StoreContains(t)
    \/ IncrementGet(t) \/ IncrementPut(t)
    \/ StoreMkdir(t) \/ StoreCreate(t) \/ StoreWrite(t) \/ StoreSync(t)
    \/ StoreMeta(t) \/ StoreBloomSet(t)
    \/ StoreCacheInsert(t) \/ StoreCacheLen(t) \/ StoreEvict(t)
    \/ RetrieveCache(t) \/ RetrievePath(t)
    \/ RetrieveRead(t) \/ RetrieveDecode(t)
    \/ PageMkdir(t) \/ PageWrite(t) \/ PageGet(t) \/ PagePut(t)
    \/ Finish(t)

Fault(t) ==
    \/ StoreContainsFail(t) \/ IncrementGetFail(t) \/ IncrementPutFail(t)
    \/ StoreMkdirFail(t) \/ StoreCreateFail(t) \/ StoreWriteFail(t)
    \/ StoreSyncFail(t) \/ StoreMetaFail(t)
    \/ RetrieveReadFail(t)
    \/ PageMkdirFail(t) \/ PageWriteFail(t) \/ PageGetFail(t) \/ PagePutFail(t)

\* one process, one call at a time, no failing operation
NextSeq == (\E t \in Tasks : BeginSeq(t) \/ Body(t)) \/ Tick
SpecSeq == Init /\ [][NextSeq]_vars

\* one call at a time, no failing operation, with restarts
NextRestart == (\E t \in Tasks : BeginSeq(t) \/ Body(t)) \/ Tick \/ Restart
SpecRestart == Init /\ [][NextRestart]_vars

\* one process, concurrent calls within one day, no failing operation
NextConc == \E t \in Tasks : Begin(t) \/ Body(t)
SpecConc == Init /\ [][NextConc]_vars

\* concurrent calls that touch the same index keys, no failing operation: the
\* record_page_fetch calls of a session begin, then the stores of a payload
StoreSame(t) ==
    /\ RacePageCalls <= calls /\ calls < RaceCalls
    /\ StoreCall(t, RacePayload)
PageSame(t) ==
    /\ calls < RacePageCalls
    /\ \E sid \in Sessions, pf \in RacePages : PageCall(t, sid, pf)
NextRace ==
    \E t \in Tasks :
        \/ StoreSame(t) \/ PageSame(t)
        \/ StoreBloomCheck(t) \/ StoreContains(t)
        \/ IncrementGet(t) \/ IncrementPut(t)
        \/ StoreMkdir(t) \/ StoreCreate(t) \/ StoreWrite(t) \/ StoreSync(t)
        \/ StoreMeta(t) \/ StoreBloomSet(t)
        \/ PageMkdir(t) \/ PageWrite(t) \/ PageGet(t) \/ PagePut(t)
        \/ Finish(t)
SpecRace == Init /\ [][NextRace]_vars

\* ingestion: what a handler and the storage calls it makes do
ArchiveSteps(t) ==
    \/ ArchiveSession(t) \/ ArchiveRequestEntry(t) \/ ArchiveRequestStored(t)
    \/ ArchiveResponseEntry(t) \/ ArchiveResponseStored(t)
    \/ ArchivePersist(t) \/ ArchivePersisted(t) \/ ArchiveReturn(t)
    \/ StoreBloomCheck(t) \/ StoreContains(t)
    \/ IncrementGet(t) \/ IncrementPut(t)
    \/ StoreMkdir(t) \/ StoreCreate(t) \/ StoreWrite(t) \/ StoreSync(t)
    \/ StoreMeta(t) \/ StoreBloomSet(t)
    \/ StoreCacheInsert(t) \/ StoreCacheLen(t) \/ StoreEvict(t)
    \/ PageMkdir(t) \/ PageWrite(t) \/ PageGet(t) \/ PagePut(t)

\* one ingestion batch at a time, no failing operation
ArchiveBeginSeq(t) == (\A u \in Tasks : handler[u].pc = "idle") /\ ArchiveBegin(t)
NextArchive == \E t \in Tasks : ArchiveBeginSeq(t) \/ ArchiveSteps(t)
SpecArchive == Init /\ [][NextArchive]_vars

\* concurrent ingestion batches, no failing operation
NextArchiveConc == \E t \in Tasks : ArchiveBegin(t) \/ ArchiveSteps(t)
SpecArchiveConc == Init /\ [][NextArchiveConc]_vars

\* one call at a time, failing operations, restarts
NextFault == (\E t \in Tasks : BeginSeq(t) \/ Body(t) \/ Fault(t)) \/ Restart
SpecFault == Init /\ [][NextFault]_vars

\* one call at a time; the blob write and the fsync of a store can fail
NextWriteFault ==
    \E t \in Tasks : BeginSeq(t) \/ Body(t) \/ StoreWriteFail(t) \/ StoreSyncFail(t)
SpecWriteFault == Init /\ [][NextWriteFault]_vars

\* concurrent stores of one payload over more than one day, no failing operation
StoreAgain(t) ==
    /\ calls < FrameCalls
    /\ StoreCall(t, RacePayload)
NextFrame ==
    \/ \E t \in Tasks :
        \/ StoreAgain(t)
        \/ StoreBloomCheck(t) \/ StoreContains(t)
        \/ IncrementGet(t) \/ IncrementPut(t)
        \/ StoreMkdir(t) \/ StoreCreate(t) \/ StoreWrite(t) \/ StoreSync(t)
        \/ StoreMeta(t) \/ StoreBloomSet(t)
        \/ Finish(t)
    \/ Tick
SpecFrame == Init /\ [][NextFrame]_vars

\* concurrent calls within one day, failing operations, restarts
Next == (\E t \in Tasks : Begin(t) \/ Body(t) \/ Fault(t)) \/ Restart
Spec == Init /\ [][Next]_vars

\* ------------------------------------------------------------ properties
AllIdle == \A t \in Tasks : task[t].pc = "idle"
Did(t, s) == \E i \in 1..Len(task[t].steps) : task[t].steps[i] = s
Before(t, a, b) ==
    \E i, j \in 1..Len(task[t].steps) :
        i < j /\ task[t].steps[i] = a /\ task[t].steps[j] = b
StoredPayloads == {b \in Payloads : okStores[b] >= 1}
ContentFiles == {p \in DOMAIN fs : p[1] = ContentDir}
MetaKeys == {k \in DOMAIN db : db[k].type = "meta"}
BlobPath(b) == get_content_path(strip_prefix(compute_hash(b), Sha256Tag))
BlobComplete(b) ==
    /\ BlobPath(b) \in DOMAIN fs
    /\ fs[BlobPath(b)].data = encode_all(b)
    /\ fs[BlobPath(b)].synced
RECURSIVE SumLen(_, _)
SumLen(S, compressed) ==
    IF S = {} THEN 0
    ELSE LET b == CHOOSE y \in S : TRUE IN
         (IF compressed THEN Len(encode_all(b)) ELSE Len(b)) + SumLen(S \ {b}, compressed)

\* C1 (dedup idempotence): in one process, calls made one at a time and no
\* failing operation, every store(b) returns the identity of b, and once N >= 1
\* calls for b have returned there is one blob file and one metadata record per
\* stored identity, the blob decodes to b, and reference_count = N.
C1_DedupIdempotence ==
    /\ \A t \in Tasks :
        (task[t].pc = "ret" /\ task[t].op = "store")
            => task[t].res = Ok(compute_hash(task[t].data))
    /\ AllIdle =>
        /\ Cardinality(ContentFiles) = Cardinality(StoredPayloads)
        /\ Cardinality(MetaKeys) = Cardinality(StoredPayloads)
        /\ \A b \in StoredPayloads :
            /\ compute_hash(b) \in MetaKeys
            /\ db[compute_hash(b)].reference_count = okStores[b]
            /\ BlobComplete(b)

C1_Witness ==
    /\ AllIdle
    /\ okStores[SmallA] = 3
    /\ db[compute_hash(SmallA)].reference_count = 3

\* C2 (round trip): a retrieve(h) that begins after store(b) returned h returns
\* exactly b.
C2_RoundTrip ==
    \A t \in Tasks :
        (task[t].pc = "ret" /\ task[t].op = "retrieve" /\ task[t].prior)
            => \E b \in Payloads :
                   compute_hash(b) = task[t].hash /\ task[t].res = Ok(b)

\* C3 (reference count monotone): a metadata record starts with
\* reference_count 1 and no write to it lowers the count.
C3_RefCountMonotone ==
    [][\A k \in DOMAIN db' :
          db'[k].type = "meta" =>
              IF k \in DOMAIN db
              THEN db'[k].reference_count >= db[k].reference_count
              ELSE db'[k].reference_count = 1]_vars

\* C4 (blob written once): a store call that begins after a store of the same
\* identity has returned never creates (truncates) the blob file again.
C4_BlobWrittenOnce ==
    \A t \in Tasks :
        (task[t].op = "store" /\ task[t].prior) => ~Did(t, "create")

\* C5 (re-verification after restart): a store of an identity whose metadata
\* record was in the index when the process started consults the index before
\* any blob write, keeps the record and increments its count.
C5_ReverifyAfterRestart ==
    \A t \in Tasks :
        (task[t].op = "store" /\ task[t].hash \in atBoot) =>
            /\ ~Did(t, "create")
            /\ ~Did(t, "meta")
            /\ task[t].pc = "ret" => (Did(t, "contains_yes") /\ Did(t, "put"))

\* C6 (store ordering): on the new-content path the blob is written and synced
\* before the metadata record is inserted and before the bloom filter is set; a
\* failing directory creation, file creation, write or fsync returns an error,
\* and that call has then added neither a metadata record nor a bloom mark.
C6_StoreOrdering ==
    \A t \in Tasks :
        task[t].op = "store" =>
            /\ Did(t, "meta") =>
                (Before(t, "create", "write") /\ Before(t, "write", "sync")
                    /\ Before(t, "sync", "meta") /\ BlobPath(task[t].data) \in DOMAIN fs)
            /\ Did(t, "bloom_set") => Before(t, "sync", "bloom_set")
            /\ Did(t, "failed") => (task[t].pc = "ret" /\ task[t].res.kind = "Err")
            /\ (task[t].pc = "ret" /\ task[t].res = Err("Io")) =>
                (~Did(t, "meta") /\ ~Did(t, "bloom_set"))

C6_Witness ==
    \E t \in Tasks :
        /\ task[t].op = "store" /\ task[t].pc = "ret" /\ task[t].res = Err("Io")
        /\ Did(t, "write")
        /\ task[t].hash \notin DOMAIN db
        /\ ~BloomCheck(bloom, task[t].hash)

\* C7 (durability on return): at the moment a store call returns Ok, the blob
\* at the identity's path is complete and synced.
C7_DurableOnReturn ==
    [][\A t \in Tasks :
          (task[t].pc # "ret" /\ task'[t].pc = "ret" /\ task'[t].op = "store"
              /\ task'[t].res.kind = "Ok")
            => (/\ BlobPath(task'[t].data) \in DOMAIN fs'
                /\ fs'[BlobPath(task'[t].data)].data = encode_all(task'[t].data)
                /\ fs'[BlobPath(task'[t].data)].synced)]_vars

\* C8 (retrieve of a never stored identity): retrieve of a string for which no
\* blob and no cache entry exists returns the not-found error.
NoBlob(hash) ==
    \/ ~CanSlice(HashOnly(hash))
    \/ get_content_path(HashOnly(hash)) \notin DOMAIN fs
C8_NotFound ==
    \A t \in Tasks :
        (task[t].pc = "ret" /\ task[t].op = "retrieve"
            /\ task[t].hash \notin DOMAIN cache /\ NoBlob(task[t].hash))
            => task[t].res = Err("NotFound")

\* C9 (cache capacity bound): after every completed call of a sequential run
\* the hot cache holds at most CACHE_SIZE entries.
C9_CacheBound == AllIdle => Cardinality(DOMAIN cache) <= CACHE_SIZE

\* C10 (stats consistency): after successful store and record_page_fetch calls,
\* content_count is the number of distinct stored payloads, total_size the sum
\* of their sizes and compressed_size the sum of their compressed sizes.
C10_StatsConsistency ==
    AllIdle =>
        /\ get_stats.content_count = Cardinality(StoredPayloads)
        /\ get_stats.total_size = SumLen(StoredPayloads, FALSE)
        /\ get_stats.compressed_size = SumLen(StoredPayloads, TRUE)

IsPrefix(a, b) == Len(a) <= Len(b) /\ SubSeq(b, 1, Len(a)) = a
PathList(d, sid) ==
    IF SessionKey(sid) \in DOMAIN d /\ d[SessionKey(sid)].type = "paths"
    THEN d[SessionKey(sid)].paths ELSE <<>>

\* C11 (append-only path list): no step removes or replaces an entry of a
\* session's path list, and a record_page_fetch call that returns Ok leaves the
\* list it found with exactly its own path appended, also when the read of the
\* list failed.
C11_AppendOnly ==
    [][/\ \A sid \in Sessions : IsPrefix(PathList(db, sid), PathList(db', sid))
       /\ \A t \in Tasks :
            (task[t].pc = "p_put" /\ task'[t].pc = "ret" /\ task'[t].res.kind = "Ok")
              => PathList(db', task[t].sid)
                     = Append(PathList(db, task[t].sid), TaskPagePath(t))]_vars

\* C12 (immutable snapshots): every record_page_fetch call writes its snapshot
\* to a path at which no file exists yet, so no snapshot file is overwritten.
C12_SnapshotsImmutable ==
    [][\A t \in Tasks :
          (task[t].pc = "p_write" /\ task'[t].pc = "p_get")
            => TaskPagePath(t) \notin DOMAIN fs]_vars

\* C13 (error propagation): a call in which an index operation or a file
\* operation failed does not go on and returns an error.
C13_ErrorPropagation ==
    \A t \in Tasks :
        (Did(t, "failed") \/ Did(t, "get_failed") \/ Did(t, "get_bad"))
            => (task[t].pc = "ret" /\ task[t].res.kind = "Err")

\* C15 (cache transparency): every cache entry holds exactly the bytes that the
\* blob stored for its key decodes to, so a retrieve answered from the cache
\* returns what a retrieve with the cache empty returns.
C15_CacheTransparent ==
    \A h \in DOMAIN cache :
        /\ CanSlice(HashOnly(h))
        /\ get_content_path(HashOnly(h)) \in DOMAIN fs
        /\ decode_all(fs[get_content_path(HashOnly(h))].data)
               = [ok |-> TRUE, val |-> cache[h]]

\* C16 (bloom false positive): a store for which the filter answers maybe
\* present and the index has no record does not take the duplicate path; it
\* writes the blob, inserts a record with reference_count 1 and returns the
\* identity.
C16_BloomFalsePositive ==
    \A t \in Tasks :
        (task[t].op = "store" /\ Did(t, "bloom_hit") /\ Did(t, "contains_no")) =>
            /\ ~Did(t, "get") /\ ~Did(t, "get_none") /\ ~Did(t, "put")
            /\ task[t].pc = "ret" =>
                /\ task[t].res = Ok(compute_hash(task[t].data))
                /\ Before(t, "contains_no", "create") /\ Before(t, "create", "write")
                /\ Before(t, "write", "meta")
                /\ BlobComplete(task[t].data)
                /\ RefCount(task[t].hash) = 1

C16_Witness ==
    \E t \in Tasks :
        /\ task[t].op = "store" /\ task[t].pc = "ret"
        /\ Did(t, "bloom_hit") /\ Did(t, "contains_no")
        /\ task[t].res.kind = "Ok"

\* the steps that read or write the metadata index or the file system
IoSteps ==
    {"contains_yes", "contains_no", "get", "get_none", "get_bad", "get_failed", "put",
     "mkdir", "create", "write", "sync", "meta", "read", "exists", "not_found", "failed"}

\* C18 (bloom lock never held across I/O): a task that holds the bloom filter's
\* read lock performs no index operation and no file operation.
C18_NoIoUnderBloomLock ==
    [][\A t \in Tasks :
          (HoldsBloomRead(t) /\ Len(task'[t].steps) > Len(task[t].steps))
            => task'[t].steps[Len(task'[t].steps)] \notin IoSteps]_vars

\* C19 (read-modify-write is not atomic): the increment writes back the count
\* it read plus one and the append writes back the list it read plus its path,
\* whatever the index holds at the time of the write; so two concurrent stores
\* of a stored identity can raise the count by 1 and two concurrent
\* record_page_fetch calls of a session can leave one of the two paths.
C19_ReadModifyWrite ==
    [][\A t \in Tasks :
          /\ (task[t].pc = "s_inc_put" /\ task'[t].pc = "ret" /\ task'[t].res.kind = "Ok")
               => db'[task[t].hash].reference_count = task[t].meta.reference_count + 1
          /\ (task[t].pc = "p_put" /\ task'[t].pc = "ret" /\ task'[t].res.kind = "Ok")
               => PathList(db', task[t].sid) = Append(task[t].buf, TaskPagePath(t))]_vars

\* one store had returned; two more began after it, both incremented and the
\* count is 2; two record_page_fetch calls wrote two snapshots and the list has
\* one path
C19_Witness ==
    /\ okStores[RacePayload] = 1
    /\ \A t \in Tasks :
        /\ task[t].op = "store" /\ task[t].pc = "ret" /\ task[t].prior
        /\ Did(t, "put") /\ task[t].res.kind = "Ok"
    /\ RefCount(compute_hash(RacePayload)) = 2
    /\ \A sid \in Sessions :
        /\ \A pf \in RacePages : PagePath(clock, sid, pf) \in DOMAIN fs
        /\ Len(PathList(db, sid)) = 1

\* the request entries of a batch that map to a session, in batch order
RECURSIVE RequestsOf(_, _)
RequestsOf(entries, session_id) ==
    IF entries = <<>> THEN <<>>
    ELSE (IF Head(entries).type = "request"
             /\ extract_session_id(Head(entries).url) = session_id
          THEN <<Head(entries)>> ELSE <<>>)
         \o RequestsOf(Tail(entries), session_id)

\* the batch and the request entry an archived request was made from
BatchOf(timestamp) ==
    CHOOSE batch \in Batches :
        \E i \in 1..Len(batch.entries) :
            batch.entries[i].type = "request" /\ batch.entries[i].timestamp = timestamp
EntryOf(timestamp) ==
    LET entries == BatchOf(timestamp).entries IN
    entries[CHOOSE i \in 1..Len(entries) :
                entries[i].type = "request" /\ entries[i].timestamp = timestamp]
\* what the entry's body can be after redaction
RedactedBodies(timestamp) ==
    {strip_password_hashes(to_string(EntryOf(timestamp).body[1]), hashes) :
        hashes \in Orders(BatchOf(timestamp).password_hashes)}

\* when a handler has put a session's record back: the record ends with one
\* request per request entry of the batch for the session, in batch order,
\* each with the identity of its own body; and when every other batch has
\* completed, these come right after what the session held
GainsInOrder(t) ==
    LET session_id == handler[t].session_id
        before == active_sessions[session_id].requests
        after == active_sessions'[session_id].requests
        entries == RequestsOf(handler[t].entries, session_id)
        kept == Len(after) - Len(entries)
    IN /\ kept >= 0
       /\ \A i \in 1..Len(entries) :
            LET archived_request == after[kept + i] IN
            /\ archived_request.timestamp = entries[i].timestamp
            /\ entries[i].body # <<>> =>
                 archived_request.request_body_hash =
                     <<compute_hash(as_bytes(strip_password_hashes(
                           to_string(entries[i].body[1]), handler[t].hashes)))>>
       /\ (\A u \in Tasks \ {t} : handler[u].pc = "idle")
            => SubSeq(after, 1, kept) = before

Persisted(t) == handler[t].pc = "a_persisted" /\ handler'[t].pc = "a_next"

\* C14 (arrival order): a batch adds to the session's record one request per
\* request entry, in batch order, after the requests recorded by the batches
\* that have completed; any two requests of the record whose bodies (the
\* redacted bytes that store is given) differ carry different body identities,
\* each the identity of its own body.
C14_ArrivalOrder ==
    [][\A t \in Tasks : Persisted(t) =>
          /\ GainsInOrder(t)
          /\ LET requests == active_sessions'[handler[t].session_id].requests IN
             \A i, j \in 1..Len(requests) :
                (/\ EntryOf(requests[i].timestamp).body # <<>>
                 /\ EntryOf(requests[j].timestamp).body # <<>>
                 /\ RedactedBodies(requests[i].timestamp)
                        \cap RedactedBodies(requests[j].timestamp) = {})
                  => requests[i].request_body_hash # requests[j].request_body_hash]_vars

Contains(text, pat) ==
    \E i \in 1..(Len(text) - Len(pat) + 1) : SubSeq(text, i, i + Len(pat) - 1) = pat
HeadersContain(headers, pat) ==
    \E i \in 1..Len(headers) : Contains(headers[i][2], pat)

\* C17 (redaction before disk): nothing a handler passes to store_content or
\* store_page_fetch holds a secret of its batch, the record's password_hashes
\* field aside: not the bytes stored, not a recorded URL, page URL or header
\* value, not the session identifier as record field and directory name.
C17_RedactionBeforeDisk ==
    \A t \in Tasks : \A k \in 1..Len(handler[t].hashes) :
        LET secret == handler[t].hashes[k] IN
        /\ task[t].op = "store" => ~Contains(task[t].data, as_bytes(secret))
        /\ task[t].op = "page" =>
            /\ ~Contains(task[t].sid, secret)
            /\ ~Contains(task[t].pf.session_id, secret)
            /\ ~Contains(task[t].pf.page_url, secret)
            /\ \A i \in 1..Len(task[t].pf.requests) :
                LET archived_request == task[t].pf.requests[i] IN
                /\ ~Contains(archived_request.url, secret)
                /\ ~HeadersContain(archived_request.request_headers, secret)
                /\ archived_request.response # <<>> =>
                       ~HeadersContain(archived_request.response[1].headers, secret)

\* C20 (the active record accumulates): no step takes a request out of a
\* session's active record, and when a handler is done with a session the
\* record holds the requests the handler added, whatever store_page_fetch
\* returned.
C20_ActiveAccumulates ==
    [][/\ \A session_id \in DOMAIN active_sessions :
            /\ session_id \in DOMAIN active_sessions'
            /\ IsPrefix(active_sessions[session_id].requests,
                        active_sessions'[session_id].requests)
       /\ \A t \in Tasks : Persisted(t) =>
            IsPrefix(handler[t].page_fetch.requests,
                     active_sessions'[handler[t].session_id].requests)]_vars

\* C21 (the record holds the secrets redacted from it): when a handler puts a
\* session's record back with the requests of its batch added, the record's
\* password_hashes contains every secret value of that batch.
C21_RecordHoldsSecrets ==
    [][\A t \in Tasks :
          (Persisted(t) /\ task[t].res.kind = "Ok") =>
              LET password_hashes ==
                      active_sessions'[handler[t].session_id].password_hashes
              IN \A k \in 1..Len(handler[t].hashes) :
                     \E j \in 1..Len(password_hashes) :
                         password_hashes[j] = handler[t].hashes[k]]_vars

\* C22 (presence chain): in every state, also after failed store calls, every
\* identity with a metadata record has a blob file at its derived path; a store
\* that marks its identity in the bloom filter does so when the identity has a
\* metadata record; and no step takes a metadata record or a blob file away.
C22_PresenceChain ==
    /\ [](\A h \in MetaKeys :
             get_content_path(strip_prefix(h, Sha256Tag)) \in DOMAIN fs)
    /\ [][/\ \A t \in Tasks :
               (task[t].pc = "s_bloom_set" /\ task'[t].pc \in {"s_cache", "ret"})
                 => (task[t].hash \in MetaKeys /\ task[t].hash \in MetaKeys')
          /\ MetaKeys \subseteq MetaKeys'
          /\ ContentFiles \subseteq DOMAIN fs']_vars

\* a store failed at the insert of its record, after its blob was written and
\* synced: the blob is there without a record and without a mark, next to an
\* identity that an earlier store has marked and recorded
C22_Witness ==
    \E t \in Tasks :
        /\ task[t].op = "store" /\ task[t].pc = "ret" /\ task[t].res = Err("Index")
        /\ Did(t, "sync")
        /\ task[t].hash \notin DOMAIN db
        /\ BlobPath(task[t].data) \in DOMAIN fs
        /\ ~BloomCheck(bloom, task[t].hash)
        /\ \E b \in StoredPayloads :
              BloomCheck(bloom, compute_hash(b)) /\ compute_hash(b) \in MetaKeys

\* C23 (a failed store leaves no retrievable partial blob): when no store of
\* the bytes has returned Ok, the stores of them that were made having failed
\* during the blob write or the fsync, a retrieve of their identity returns the
\* not-found error, never a decode error and never bytes.
C23_NoPartialBlob ==
    \A t \in Tasks :
        (/\ task[t].op = "retrieve" /\ task[t].pc = "ret"
         /\ \E b \in Payloads : task[t].hash = compute_hash(b) /\ okStores[b] = 0)
            => task[t].res = Err("NotFound")

\* C24 (duplicate-store frame): every step of a store call on the duplicate
\* path (the filter answered maybe present and the index has the record)
\* leaves the files, the bloom filter, the cache and all other records as they
\* are, and changes at most the reference_count of the identity's record.
C24_DuplicateFrame ==
    [][\A t \in Tasks :
          (/\ task[t].op = "store" /\ task[t].pc \in {"s_inc_get", "s_inc_put"}
           /\ task'[t].pc \in {"s_inc_put", "ret"} /\ task'[t].pc # task[t].pc)
            => /\ fs' = fs /\ bloom' = bloom /\ cache' = cache
               /\ DOMAIN db' = DOMAIN db
               /\ \A k \in DOMAIN db : k # task[t].hash => db'[k] = db[k]
               /\ task[t].hash \in DOMAIN db
               /\ db'[task[t].hash] =
                      [db[task[t].hash] EXCEPT
                          !.reference_count = db'[task[t].hash].reference_count]]_vars
====
